---- MODULE Spec2Model ----
(***************************************************************************)
(* Nonogram solver of src/solver.py: the line solvers, the propagation     *)
(* loop, the backtracking search, and the two-line clue text format.       *)
(* Lines, boards and clues are sequences; the 0-based index i of the       *)
(* source is index i + 1 here.                                             *)
(***************************************************************************)
EXTENDS Integers, Sequences, FiniteSets, TLC

VARIABLES
    mode,        \* "idle", then the computation run: "solve", "line", "prop", "ui", ...
    hints,       \* line solvers: the clue of the line
    length,      \* line solvers: the length argument
    marked,      \* line solvers: marked_state
    rangeOut,    \* <<result>> of determine_certain_by_range, <<>> before it ran
    patOut,      \* <<result>> of determine_certain_by_patterns, <<>> before it ran
    cellsOut,    \* <<result>> of determine_certain_cells, <<>> before it ran
    genOut,      \* <<result>> of generate_all_patterns, <<>> before it ran
    rowClues,    \* solver: row_hints
    colClues,    \* solver: col_hints
    stack,       \* solver: the active solve_with_backtrack calls, root first
    ret,         \* solver: value returned by the call that returned last
    calls,       \* solver: number of solve_with_backtrack calls made so far
    propBoard,   \* propagation: the board given to the first call
    propFirst,   \* propagation: <<exit state>> of the first call, <<>> before
    propSecond,  \* propagation: <<exit state>> of the call on that result
    validOut,    \* validator: <<result>> of is_valid_board on propBoard, <<>> before
    heap,        \* clones: the row lists allocated so far; a row's id is its index
    cstack,      \* clones: the active solve_with_backtrack calls, boards as lists of row ids
    cret,        \* clones: <<row ids>> of the board returned last, <<>> for None
    fileText,    \* parser: the characters of puzzle_clue.txt
    parsed,      \* parser: <<outcome>> of parse_input, <<>> before it ran
    uiBoard,     \* window: self.board, <<row ids>> or <<>> for None
    board_history, \* window: self.board_history, each snapshot a list of row ids
    passLines,   \* window: for each snapshot, the lines dispatched since the one before
    uiIteration, \* window: iterations of the loop of solve_puzzle run so far
    uiChanged,   \* window: changed at the end of the last iteration
    uiPc,        \* window: "none", "solve" before solve_puzzle, "loop" in its loop, "ready"
    clicks,      \* window: number of clicks on the solve button so far
    extracted    \* window: <<result>> of extract_func in the last click, <<>> if not called

vars == <<mode, hints, length, marked, rangeOut, patOut, cellsOut, genOut,
          rowClues, colClues, stack, ret, calls,
          propBoard, propFirst, propSecond, validOut, heap, cstack, cret,
          fileText, parsed,
          uiBoard, board_history, passLines, uiIteration, uiChanged, uiPc, clicks, extracted>>

lineVars  == <<hints, length, marked, rangeOut, patOut, cellsOut, genOut>>
solveVars == <<stack, ret, calls>>
clueVars  == <<rowClues, colClues>>
propVars  == <<propBoard, propFirst, propSecond, validOut>>
parseVars == <<fileText, parsed>>
cloneVars == <<heap, cstack, cret>>
uiVars    == <<uiBoard, board_history, passLines, uiIteration, uiChanged, uiPc, clicks, extracted>>

----------------------------------------------------------------------------
(* Cell values *)

Unknown == -1
Filled == 1
Blank == 0

\* A Python value that is either None or a board: <<>> or <<board>>
None == <<>>
Some(b) == <<b>>

----------------------------------------------------------------------------
(* Bounds *)

MaxLen == 5        \* longest line given to the line solvers
MaxNeed == 6       \* most cells a clue given to the line solvers needs
MaxPropCells == 4  \* most cells of a board given to propagation alone
MaxPropMarks == 1  \* most determined cells of such a board when a clue may not fit
MaxFileInts == 4   \* most numbers in the clues saved to a file
MaxText == 5       \* most characters of a file written by hand
MaxCells == 9      \* most cells of a puzzle built from a picture
MaxFreeCells == 5  \* most cells of a puzzle with freely chosen clues
MaxValidCells == 4 \* most cells of a board given to the validator alone
MaxCloneCells == 6 \* most cells of a picture puzzle searched on the heap of rows
MaxCloneFreeCells == 4 \* most cells of a free-clue puzzle searched on the heap

----------------------------------------------------------------------------
(* Python helpers *)

RECURSIVE SumSeq(_)
SumSeq(s) == IF s = <<>> THEN 0 ELSE Head(s) + SumSeq(Tail(s))

\* [v] * n ; a non-positive n gives the empty list
Repeat(v, n) == [i \in 1..n |-> v]

\* s[from:] with a 0-based from
SliceFrom(s, from) == SubSeq(s, from + 1, Len(s))

\* s[:to] with a 0-based exclusive to
SliceTo(s, to) == SubSeq(s, 1, to)

Max(a, b) == IF a >= b THEN a ELSE b
Min(a, b) == IF a <= b THEN a ELSE b

\* "not hints or hints == [0]"
IsEmptyClue(h) == h = <<>> \/ h = <<0>>

----------------------------------------------------------------------------
(* get_blocks *)

RECURSIVE GetBlocksLoop(_, _, _, _)
GetBlocksLoop(line, i, blocks, current_block) ==
    IF i > Len(line)
    THEN IF current_block > 0 THEN Append(blocks, current_block) ELSE blocks
    ELSE IF line[i] = 1
         THEN GetBlocksLoop(line, i + 1, blocks, current_block + 1)
         ELSE IF current_block > 0
              THEN GetBlocksLoop(line, i + 1, Append(blocks, current_block), 0)
              ELSE GetBlocksLoop(line, i + 1, blocks, current_block)

get_blocks(line) ==
    LET blocks == GetBlocksLoop(line, 1, <<>>, 0)
    IN  IF blocks # <<>> THEN blocks ELSE <<0>>

----------------------------------------------------------------------------
(* generate_all_patterns: the list of patterns, in the order the source    *)
(* appends them.                                                           *)

\* Compatible testing the Filled marks only: a Blank mark never conflicts
CompatibleFilledOnly(marked_state, pattern) ==
    \A i \in 1..Len(pattern) :
        marked_state[i] # Filled \/ pattern[i] = Filled

\* the prefix check of lines 101-105 and the full check of lines 89-91
Compatible(marked_state, pattern) ==
    \A i \in 1..Len(pattern) :
        marked_state[i] = Unknown \/ marked_state[i] = pattern[i]

RECURSIVE backtrack(_, _, _, _, _, _)
RECURSIVE BacktrackStarts(_, _, _, _, _, _, _, _)

backtrack(h, len, marked_state, pos, block_idx, current_pattern) ==
    IF block_idx = Len(h)
    THEN LET pattern == current_pattern \o Repeat(0, len - pos)
         IN  IF Compatible(marked_state, pattern) THEN <<pattern>> ELSE <<>>
    ELSE LET block_size == h[block_idx + 1]
             rest == SliceFrom(h, block_idx + 1)
             space_needed == SumSeq(rest) + Len(rest)
         IN  BacktrackStarts(h, len, marked_state, pos, block_idx, current_pattern,
                             pos, len - block_size - space_needed + 1)

\* BacktrackStarts without the separating Blank cell of line 109
BacktrackStartsNoSeparator(h, len, marked_state, pos, block_idx, current_pattern, start, stop) ==
    IF start >= stop
    THEN <<>>
    ELSE LET block_size == h[block_idx + 1]
             new_pattern == current_pattern \o Repeat(0, start - pos)
                                            \o Repeat(1, block_size)
             found ==
                 IF Compatible(marked_state, new_pattern)
                 THEN backtrack(h, len, marked_state, start + block_size,
                                block_idx + 1, new_pattern)
                 ELSE <<>>
         IN  found \o BacktrackStarts(h, len, marked_state, pos, block_idx,
                                      current_pattern, start + 1, stop)

\* for start in range(start, stop)
BacktrackStarts(h, len, marked_state, pos, block_idx, current_pattern, start, stop) ==
    IF start >= stop
    THEN <<>>
    ELSE LET block_size == h[block_idx + 1]
             new_pattern == current_pattern \o Repeat(0, start - pos)
                                            \o Repeat(1, block_size)
             found ==
                 IF Compatible(marked_state, new_pattern)
                 THEN IF block_idx < Len(h) - 1
                      THEN backtrack(h, len, marked_state, start + block_size + 1,
                                     block_idx + 1, Append(new_pattern, 0))
                      ELSE backtrack(h, len, marked_state, start + block_size,
                                     block_idx + 1, new_pattern)
                 ELSE <<>>
         IN  found \o BacktrackStarts(h, len, marked_state, pos, block_idx,
                                      current_pattern, start + 1, stop)

generate_all_patterns(h, len, marked_state) ==
    IF IsEmptyClue(h)
    THEN IF \A i \in 1..len : marked_state[i] \in {-1, 0}
         THEN <<Repeat(0, len)>>
         ELSE <<>>
    ELSE backtrack(h, len, marked_state, 0, 0, <<>>)

----------------------------------------------------------------------------
(* determine_certain_by_range *)

\* lines 130-132 without the test of line 131: every cell becomes Blank
BlankEvery(len, marked_state) ==
    [i \in 1..Len(marked_state) |-> IF i <= len THEN 0 ELSE marked_state[i]]

\* lines 129-135 and 185-191: every Unknown cell becomes Blank
BlankUnknown(len, marked_state) ==
    [i \in 1..Len(marked_state) |->
        IF i <= len /\ marked_state[i] = -1 THEN 0 ELSE marked_state[i]]

\* lines 140-151 for the block with 0-based index block_idx
left_start(h, block_idx) == SumSeq(SliceTo(h, block_idx)) + block_idx
right_space(h, block_idx) ==
    SumSeq(SliceFrom(h, block_idx + 1)) + Len(SliceFrom(h, block_idx + 1))
\* right_start one cell too far to the left
right_start_one_early(h, len, block_idx) ==
    len - h[block_idx + 1] - right_space(h, block_idx) - 1

right_start(h, len, block_idx) == len - h[block_idx + 1] - right_space(h, block_idx)
\* left_end one cell too far to the right
left_end_off_by_one(h, block_idx) == left_start(h, block_idx) + h[block_idx + 1]

left_end(h, block_idx) == left_start(h, block_idx) + h[block_idx + 1] - 1

\* lines 163-166: the 0-based positions the block marks
CertainCells(h, len, block_idx) ==
    LET certain_start == right_start(h, len, block_idx)
        certain_end == left_end(h, block_idx)
    IN  IF certain_start <= certain_end
        THEN Max(0, certain_start) .. (Min(len, certain_end + 1) - 1)
        ELSE {}

RECURSIVE RangeBlocks(_, _, _, _)
RangeBlocks(h, len, result, block_idx) ==
    IF block_idx >= Len(h)
    THEN result
    ELSE LET cells == CertainCells(h, len, block_idx)
             marked1 == [i \in 1..Len(result) |->
                           IF (i - 1) \in cells /\ result[i] = -1 THEN 1 ELSE result[i]]
         IN  RangeBlocks(h, len, marked1, block_idx + 1)

determine_certain_by_range(h, len, marked_state) ==
    IF IsEmptyClue(h)
    THEN BlankUnknown(len, marked_state)
    ELSE RangeBlocks(h, len, marked_state, 0)

----------------------------------------------------------------------------
(* determine_certain_by_patterns *)

\* determine_certain_by_patterns without the all(...) test of line 208
determine_certain_by_patterns_first_pattern(h, len, marked_state) ==
    IF IsEmptyClue(h)
    THEN BlankUnknown(len, marked_state)
    ELSE LET all_valid_patterns == generate_all_patterns(h, len, marked_state)
         IN  IF all_valid_patterns = <<>>
             THEN marked_state
             ELSE [i \in 1..Len(marked_state) |->
                     IF i <= len /\ marked_state[i] = -1
                     THEN all_valid_patterns[1][i]
                     ELSE marked_state[i]]

determine_certain_by_patterns(h, len, marked_state) ==
    IF IsEmptyClue(h)
    THEN BlankUnknown(len, marked_state)
    ELSE LET all_valid_patterns == generate_all_patterns(h, len, marked_state)
         IN  IF all_valid_patterns = <<>>
             THEN marked_state
             ELSE [i \in 1..Len(marked_state) |->
                     IF i <= len /\ marked_state[i] = -1
                     THEN LET first_val == all_valid_patterns[1][i]
                          IN  IF \A p \in 1..Len(all_valid_patterns) :
                                     all_valid_patterns[p][i] = first_val
                              THEN first_val
                              ELSE -1
                     ELSE marked_state[i]]

----------------------------------------------------------------------------
(* determine_certain_cells *)

\* determine_certain_cells without the test of line 228
determine_certain_cells_always_range(h, len, marked_state) ==
    determine_certain_by_range(h, len, marked_state)

determine_certain_cells(h, len, marked_state) ==
    LET has_marked == \E i \in 1..Len(marked_state) : marked_state[i] # -1
    IN  IF has_marked
        THEN determine_certain_by_patterns(h, len, marked_state)
        ELSE determine_certain_by_range(h, len, marked_state)

----------------------------------------------------------------------------
(* is_valid_board *)

NumRows(board) == Len(board)
NumCols(board) == IF Len(board) > 0 THEN Len(board[1]) ELSE 0

\* [board[r][col] for r in range(num_rows)], col 1-based here
ColumnOf(board, col) == [r \in 1..NumRows(board) |-> board[r][col]]

NoUnknown(line) == \A i \in 1..Len(line) : line[i] # -1

\* is_valid_board without the row loop of lines 243-247
is_valid_board_columns_only(board, row_hints, col_hints) ==
    \A col \in 1..NumCols(board) :
        NoUnknown(ColumnOf(board, col)) =>
            get_blocks(ColumnOf(board, col)) = col_hints[col]

\* is_valid_board without the column loop of lines 249-253
is_valid_board_rows_only(board, row_hints, col_hints) ==
    \A r \in 1..NumRows(board) :
        NoUnknown(board[r]) => get_blocks(board[r]) = row_hints[r]

\* is_valid_board without the all(cell != -1 ...) tests of lines 245 and 251
is_valid_board_every_line(board, row_hints, col_hints) ==
    /\ \A r \in 1..NumRows(board) : get_blocks(board[r]) = row_hints[r]
    /\ \A col \in 1..NumCols(board) :
           get_blocks(ColumnOf(board, col)) = col_hints[col]

is_valid_board(board, row_hints, col_hints) ==
    /\ \A r \in 1..NumRows(board) :
           NoUnknown(board[r]) => get_blocks(board[r]) = row_hints[r]
    /\ \A col \in 1..NumCols(board) :
           NoUnknown(ColumnOf(board, col)) =>
               get_blocks(ColumnOf(board, col)) = col_hints[col]

----------------------------------------------------------------------------
(* solve_with_constraint_propagation.  A pass state is the board and the   *)
(* changed flag, updated line by line as the source does.                  *)

max_iterations == 1000

\* lines 275-278: write the new column state back, cell by cell
WriteColumn(st, col, new_col_state) ==
    [board   |-> [r \in 1..NumRows(st.board) |->
                     [st.board[r] EXCEPT ![col] = new_col_state[r]]],
     changed |-> st.changed \/ \E r \in 1..NumRows(st.board) :
                                  st.board[r][col] # new_col_state[r]]

\* WriteRow without line 287: a changed row cell does not set changed
WriteRowUnflagged(st, r, new_row_state) ==
    [board   |-> [st.board EXCEPT ![r] = new_row_state],
     changed |-> st.changed]

\* lines 284-287: write the new row state back, cell by cell
WriteRow(st, r, new_row_state) ==
    [board   |-> [st.board EXCEPT ![r] = new_row_state],
     changed |-> st.changed \/ \E col \in 1..NumCols(st.board) :
                                  st.board[r][col] # new_row_state[col]]

RECURSIVE ColumnsLoop(_, _, _)
ColumnsLoop(st, col_hints, col) ==
    IF col > NumCols(st.board)
    THEN st
    ELSE ColumnsLoop(
             WriteColumn(st, col,
                 determine_certain_cells(col_hints[col], NumRows(st.board),
                                         ColumnOf(st.board, col))),
             col_hints, col + 1)

RECURSIVE RowsLoop(_, _, _)
RowsLoop(st, row_hints, r) ==
    IF r > NumRows(st.board)
    THEN st
    ELSE RowsLoop(
             WriteRow(st, r,
                 determine_certain_cells(row_hints[r], NumCols(st.board), st.board[r])),
             row_hints, r + 1)

\* a pass with the row loop of lines 280-287 before the column loop
PropagationPassRowsFirst(board, row_hints, col_hints) ==
    ColumnsLoop(RowsLoop([board |-> board, changed |-> FALSE], row_hints, 1),
                col_hints, 1)

\* one iteration of the while loop, lines 268-287
PropagationPass(board, row_hints, col_hints) ==
    RowsLoop(ColumnsLoop([board |-> board, changed |-> FALSE], col_hints, 1),
             row_hints, 1)

\* PropagationLoop running a second pass whatever the first pass changed
RECURSIVE PropagationLoopTwice(_, _, _, _, _)
PropagationLoopTwice(board, row_hints, col_hints, changed, iteration) ==
    IF (changed \/ iteration < 2) /\ iteration < max_iterations
    THEN LET st == PropagationPass(board, row_hints, col_hints)
         IN  PropagationLoopTwice(st.board, row_hints, col_hints, st.changed, iteration + 1)
    ELSE [board |-> board, changed |-> changed, iteration |-> iteration]

\* the while loop of lines 267-287; the value is the state the loop exits in
RECURSIVE PropagationLoop(_, _, _, _, _)
PropagationLoop(board, row_hints, col_hints, changed, iteration) ==
    IF changed /\ iteration < max_iterations
    THEN LET st == PropagationPass(board, row_hints, col_hints)
         IN  PropagationLoop(st.board, row_hints, col_hints, st.changed, iteration + 1)
    ELSE [board |-> board, changed |-> changed, iteration |-> iteration]

\* the while loop of lines 267-287 again: the board after each of its passes
RECURSIVE PassBoards(_, _, _, _, _)
PassBoards(board, row_hints, col_hints, changed, iteration) ==
    IF changed /\ iteration < max_iterations
    THEN LET st == PropagationPass(board, row_hints, col_hints)
         IN  <<st.board>> \o PassBoards(st.board, row_hints, col_hints, st.changed, iteration + 1)
    ELSE <<>>

PropagationExit(board, row_hints, col_hints) ==
    PropagationLoop(board, row_hints, col_hints, TRUE, 0)

solve_with_constraint_propagation(board, row_hints, col_hints) ==
    PropagationExit(board, row_hints, col_hints).board

----------------------------------------------------------------------------
(* solve_with_backtrack.  Each active call is a frame of the stack; pc is  *)
(* the call's position: "start" on entry, "filled" while the call of line  *)
(* 319 runs, "blank" while the call of line 325 runs.                      *)

\* lines 302-309: the first Unknown cell in row-major order, <<r, c>> 1-based
UnknownCells(board) ==
    {rc \in (1..NumRows(board)) \X (1..NumCols(board)) : board[rc[1]][rc[2]] = -1}

\* the scan of lines 302-309 without its break statements: the last
\* Unknown cell in row-major order
LastUnknown(board) ==
    CHOOSE rc \in UnknownCells(board) :
        \A o \in UnknownCells(board) :
            rc[1] > o[1] \/ (rc[1] = o[1] /\ rc[2] >= o[2])

FirstUnknown(board) ==
    CHOOSE rc \in UnknownCells(board) :
        \A o \in UnknownCells(board) :
            rc[1] < o[1] \/ (rc[1] = o[1] /\ rc[2] <= o[2])

\* the guesses exchanged: Blank at line 318, Filled at line 324
GuessCopyBlankFirst(board, rc, v) == [board EXCEPT ![rc[1]][rc[2]] = 1 - v]

\* the copy of line 317 without the assignment of line 318
GuessCopyUnset(board, rc, v) == board

\* lines 317-318 and 323-324
GuessCopy(board, rc, v) == [board EXCEPT ![rc[1]][rc[2]] = v]

Frame(board, pc, rc) == [board |-> board, pc |-> pc, unknown |-> rc]

Top == stack[Len(stack)]
Pop == SubSeq(stack, 1, Len(stack) - 1)

\* lines 294-315: propagation finds no Unknown cell; the call returns
CallLeaf ==
    /\ mode = "solve"
    /\ stack # <<>>
    /\ Top.pc = "start"
    /\ LET board == solve_with_constraint_propagation(Top.board, rowClues, colClues)
       IN  /\ UnknownCells(board) = {}
           /\ ret' = IF is_valid_board(board, rowClues, colClues)
                      THEN Some(board) ELSE None
    /\ stack' = Pop
    /\ UNCHANGED <<mode, clueVars, calls, lineVars, propVars, parseVars, cloneVars, uiVars>>

\* lines 294-319: propagation leaves an Unknown cell; guess Filled and recurse
CallGuess ==
    /\ mode = "solve"
    /\ stack # <<>>
    /\ Top.pc = "start"
    /\ LET board == solve_with_constraint_propagation(Top.board, rowClues, colClues)
       IN  /\ UnknownCells(board) # {}
           /\ LET rc == FirstUnknown(board)
              IN  stack' = Pop \o <<Frame(board, "filled", rc),
                                     Frame(GuessCopy(board, rc, 1), "start", <<0, 0>>)>>
    /\ calls' = calls + 1
    /\ UNCHANGED <<mode, clueVars, ret, lineVars, propVars, parseVars, cloneVars, uiVars>>

\* FilledReturned giving up after the Filled guess instead of trying Blank
FilledReturnedNoBlank ==
    /\ mode = "solve"
    /\ stack # <<>>
    /\ Top.pc = "filled"
    /\ stack' = Pop
    /\ UNCHANGED <<mode, clueVars, ret, calls, lineVars, propVars, parseVars, cloneVars, uiVars>>

\* lines 320-325: the Filled call returned
FilledReturned ==
    /\ mode = "solve"
    /\ stack # <<>>
    /\ Top.pc = "filled"
    /\ IF ret # None
       THEN /\ stack' = Pop
            /\ UNCHANGED <<ret, calls>>
       ELSE /\ stack' = Pop \o <<Frame(Top.board, "blank", Top.unknown),
                                  Frame(GuessCopy(Top.board, Top.unknown, 0),
                                        "start", <<0, 0>>)>>
            /\ calls' = calls + 1
            /\ UNCHANGED ret
    /\ UNCHANGED <<mode, clueVars, lineVars, propVars, parseVars, cloneVars, uiVars>>

\* BlankReturned trying the Filled guess again when the Blank guess failed
BlankReturnedRetry ==
    /\ mode = "solve"
    /\ stack # <<>>
    /\ Top.pc = "blank"
    /\ IF ret # None
       THEN stack' = Pop
       ELSE stack' = Pop \o <<Frame(Top.board, "filled", Top.unknown),
                               Frame(GuessCopy(Top.board, Top.unknown, 1),
                                     "start", <<0, 0>>)>>
    /\ UNCHANGED <<mode, clueVars, ret, calls, lineVars, propVars, parseVars, cloneVars, uiVars>>

\* lines 326-329: the Blank call returned
BlankReturned ==
    /\ mode = "solve"
    /\ stack # <<>>
    /\ Top.pc = "blank"
    /\ stack' = Pop
    /\ ret' = IF ret # None THEN ret ELSE None
    /\ UNCHANGED <<mode, clueVars, calls, lineVars, propVars, parseVars, cloneVars, uiVars>>

----------------------------------------------------------------------------
(* Text.  A string is a sequence of one-character strings.  A Python value *)
(* is an int or a list: [t |-> "int", v |-> n] or [t |-> "list", v |-> s]  *)
(* with s the sequence of its elements.                                    *)

DigitChars == <<"0", "1", "2", "3", "4", "5", "6", "7", "8", "9">>
IsDigit(c) == \E d \in 1..10 : DigitChars[d] = c
DigitValue(c) == (CHOOSE d \in 1..10 : DigitChars[d] = c) - 1
IsSpace(c) == c = " " \/ c = "\n"

PyInt(n) == [t |-> "int", v |-> n]
PyList(elems) == [t |-> "list", v |-> elems]

\* a clue sequence of the model as a Python list of lists of ints
ClueAsPy(clue) == PyList([k \in 1..Len(clue) |-> PyInt(clue[k])])
Py(clues) == PyList([k \in 1..Len(clues) |-> ClueAsPy(clues[k])])

\* str(n) for n >= 0
RECURSIVE StrInt(_)
StrInt(n) ==
    IF n < 10 THEN <<DigitChars[n + 1]>>
    ELSE Append(StrInt(n \div 10), DigitChars[(n % 10) + 1])

\* str(value): the elements of a list joined by ", " between brackets
RECURSIVE Str(_)
RECURSIVE StrJoin(_, _)
StrJoin(elems, k) ==
    IF k > Len(elems) THEN <<>>
    ELSE (IF k > 1 THEN <<",", " ">> ELSE <<>>) \o Str(elems[k]) \o StrJoin(elems, k + 1)
Str(value) ==
    IF value.t = "int" THEN StrInt(value.v)
    ELSE <<"[">> \o StrJoin(value.v, 1) \o <<"]">>

\* str.strip()
RECURSIVE LStrip(_)
LStrip(s) == IF s # <<>> /\ IsSpace(Head(s)) THEN LStrip(Tail(s)) ELSE s
RECURSIVE RStrip(_)
RStrip(s) ==
    IF s # <<>> /\ IsSpace(s[Len(s)]) THEN RStrip(SubSeq(s, 1, Len(s) - 1)) ELSE s
Strip(s) == RStrip(LStrip(s))

\* f.readlines(): the lines of the text, each with its line end
RECURSIVE ReadLines(_, _, _)
ReadLines(text, i, line) ==
    IF i > Len(text)
    THEN IF line = <<>> THEN <<>> ELSE <<line>>
    ELSE IF text[i] = "\n"
         THEN <<Append(line, "\n")>> \o ReadLines(text, i + 1, <<>>)
         ELSE ReadLines(text, i + 1, Append(line, text[i]))
readlines(text) == ReadLines(text, 1, <<>>)

\* the end (exclusive) of the run of digits that starts at i
RECURSIVE DigitsEnd(_, _)
DigitsEnd(s, i) == IF i <= Len(s) /\ IsDigit(s[i]) THEN DigitsEnd(s, i + 1) ELSE i

RECURSIVE Decimal(_, _)
Decimal(ds, acc) ==
    IF ds = <<>> THEN acc ELSE Decimal(Tail(ds), 10 * acc + DigitValue(Head(ds)))

\* a decimal literal of Python source: no leading zero unless it is zero
IsLiteral(ds) == ds[1] # "0" \/ \A k \in 1..Len(ds) : ds[k] = "0"

\* the tokens of an expression; a character that starts no token of a
\* list of numbers gives the token "bad"
RECURSIVE Tokens(_, _)
Tokens(s, i) ==
    IF i > Len(s) THEN <<>>
    ELSE IF s[i] = " " THEN Tokens(s, i + 1)
    ELSE IF IsDigit(s[i])
         THEN LET e == DigitsEnd(s, i)
                  ds == SubSeq(s, i, e - 1)
              IN  <<IF IsLiteral(ds) THEN [k |-> "int", n |-> Decimal(ds, 0)]
                                     ELSE [k |-> "bad", n |-> 0]>> \o Tokens(s, e)
    ELSE IF s[i] \in {"[", "]", ","}
         THEN <<[k |-> s[i], n |-> 0]>> \o Tokens(s, i + 1)
         ELSE <<[k |-> "bad", n |-> 0]>> \o Tokens(s, i + 1)

Kind(toks, i) == IF i <= Len(toks) THEN toks[i].k ELSE "end"

Raised(i) == [ok |-> FALSE, v |-> PyInt(0), i |-> i]
Value(v, i) == [ok |-> TRUE, v |-> v, i |-> i]

\* eval of an expression made of numbers, list displays and subscripts.
\* ok is FALSE when Python raises: a syntax error, an unknown name, a
\* subscript of a number, by a list, or out of range.
RECURSIVE EvalExpr(_, _)
RECURSIVE EvalItems(_, _, _)
RECURSIVE EvalTrailers(_, _, _)

EvalExpr(toks, i) ==
    CASE Kind(toks, i) = "int" -> EvalTrailers(toks, i + 1, PyInt(toks[i].n))
      [] Kind(toks, i) = "["   ->
            LET items == EvalItems(toks, i + 1, <<>>)
            IN  IF items.ok THEN EvalTrailers(toks, items.i, items.v) ELSE items
      [] OTHER -> Raised(i)

\* the items of a list display after its "[", up to and including its "]"
EvalItems(toks, i, acc) ==
    IF Kind(toks, i) = "]"
    THEN Value(PyList(acc), i + 1)
    ELSE LET e == EvalExpr(toks, i)
         IN  IF ~e.ok THEN e
             ELSE CASE Kind(toks, e.i) = "," -> EvalItems(toks, e.i + 1, Append(acc, e.v))
                    [] Kind(toks, e.i) = "]" -> Value(PyList(Append(acc, e.v)), e.i + 1)
                    [] OTHER -> Raised(e.i)

\* the subscripts that follow a value
EvalTrailers(toks, i, value) ==
    IF Kind(toks, i) # "["
    THEN Value(value, i)
    ELSE LET e == EvalExpr(toks, i + 1)
         IN  IF e.ok /\ Kind(toks, e.i) = "]"
                /\ value.t = "list" /\ e.v.t = "int" /\ e.v.v < Len(value.v)
             THEN EvalTrailers(toks, e.i + 1, value.v[e.v.v + 1])
             ELSE Raised(i)

\* eval(line): ok with the value when the line is one expression; a line
\* that is a tuple of expressions, or raises, is not ok.  Neither is a list.
eval(line) ==
    LET toks == Tokens(line, 1)
        e == EvalExpr(toks, 1)
    IN  IF e.ok /\ e.i = Len(toks) + 1 THEN e ELSE Raised(1)

----------------------------------------------------------------------------
(* parse_input and save_clues_to_file *)

\* the first index >= i of a "]" in s, Len(s) + 1 when there is none
RECURSIVE CloseAt(_, _)
CloseAt(s, i) == IF i > Len(s) \/ s[i] = "]" THEN i ELSE CloseAt(s, i + 1)

\* re.findall(r'\[([^\]]+)\]', s): the text between each "[" and the next
\* "]" with at least one character between them, left to right
RECURSIVE FindAll(_, _)
FindAll(s, i) ==
    IF i > Len(s) THEN <<>>
    ELSE IF s[i] = "["
         THEN LET e == CloseAt(s, i + 1)
              IN  IF e <= Len(s) /\ e > i + 1
                  THEN <<SubSeq(s, i + 1, e - 1)>> \o FindAll(s, e + 1)
                  ELSE FindAll(s, i + 1)
         ELSE FindAll(s, i + 1)

\* s.split(',')
RECURSIVE Split(_, _, _)
Split(s, i, piece) ==
    IF i > Len(s) THEN <<piece>>
    ELSE IF s[i] = ","
         THEN <<piece>> \o Split(s, i + 1, <<>>)
         ELSE Split(s, i + 1, Append(piece, s[i]))

\* int(x) succeeds on a text of digits
IsIntText(x) == x # <<>> /\ \A k \in 1..Len(x) : IsDigit(x[k])

\* lines 41-47: the hints of the matches; a match with a piece that is no
\* number is dropped
RECURSIVE HintsOfMatches(_, _)
HintsOfMatches(matches, m) ==
    IF m > Len(matches) THEN <<>>
    ELSE LET pieces == Split(matches[m], 1, <<>>)
             hint == [k \in 1..Len(pieces) |-> PyInt(Decimal(Strip(pieces[k]), 0))]
         IN  (IF \A k \in 1..Len(pieces) : IsIntText(Strip(pieces[k]))
              THEN <<PyList(hint)>> ELSE <<>>)
             \o HintsOfMatches(matches, m + 1)

\* parse_line, lines 16-49
parse_line(raw) ==
    LET line == Strip(raw)
        result == eval(line)
    IN  IF line = <<>>
        THEN PyList(<<>>)
        ELSE IF result.ok /\ result.v.t = "list" /\ Len(result.v.v) > 0
             THEN IF result.v.v[1].t = "list"
                  THEN result.v
                  ELSE PyList(<<result.v>>)
             ELSE PyList(HintsOfMatches(FindAll(line, 1), 1))

Returned(row_hints, col_hints) ==
    [status |-> "returned", row_hints |-> row_hints, col_hints |-> col_hints]
IndexError == [status |-> "IndexError", row_hints |-> PyList(<<>>), col_hints |-> PyList(<<>>)]

\* parse_input returning the column clues as the row clues
parse_input_swapped(text) ==
    LET lines == readlines(text)
    IN  IF Len(lines) < 2
        THEN IndexError
        ELSE Returned(parse_line(lines[1]), parse_line(lines[2]))

\* parse_input, lines 13-57: lines[0] and lines[1] raise IndexError in a
\* file of fewer than two lines
parse_input(text) ==
    LET lines == readlines(text)
    IN  IF Len(lines) < 2
        THEN IndexError
        ELSE Returned(parse_line(lines[2]), parse_line(lines[1]))

\* save_clues_to_file, lines 448-454: the text written to the file
save_clues_to_file(col_hints, row_hints) ==
    Str(Py(col_hints)) \o <<"\n">> \o Str(Py(row_hints)) \o <<"\n">>

----------------------------------------------------------------------------
(* Puzzles.  A clue is a sequence of positive blocks, or <<0>>.            *)

\* sum(blocks) + count(blocks) - 1: the cells the clue needs
Need(clue) == SumSeq(clue) + Len(clue) - 1

Fits(clue, len) == clue = <<0>> \/ Need(clue) <= len

\* the clues of positive blocks that need at most n cells
RECURSIVE PositiveClues(_)
PositiveClues(n) ==
    IF n <= 0
    THEN {}
    ELSE {<<b>> : b \in 1..n}
         \cup UNION {{<<b>> \o rest : rest \in PositiveClues(n - b - 1)} : b \in 1..n}

\* the clues offered for a line of len cells: every clue that fits, and
\* every clue that is one cell too long
LineClues(len) == {<<0>>} \cup PositiveClues(len + 1)

Dims(cells) == {d \in (1..cells) \X (1..cells) : d[1] * d[2] <= cells}

EmptyBoard(R, C) == [r \in 1..R |-> [c \in 1..C |-> -1]]

\* the fully determined R x C boards
Pictures(R, C) == [1..R -> [1..C -> {0, 1}]]

\* a fully determined board of the puzzle's size that matches every clue
Satisfies(b, row_hints, col_hints) ==
    /\ \A r \in 1..Len(row_hints) : get_blocks(b[r]) = row_hints[r]
    /\ \A c \in 1..Len(col_hints) : get_blocks(ColumnOf(b, c)) = col_hints[c]

\* the fully determined lines of len cells whose blocks are the clue
LinesWithBlocks(clue, len) == {l \in [1..len -> {0, 1}] : get_blocks(l) = clue}

\* the boards of rows 1..r whose rows have the blocks of their clues
RECURSIVE RowFillings(_, _, _)
RowFillings(row_hints, C, r) ==
    IF r = 0
    THEN {<<>>}
    ELSE {Append(b, l) : b \in RowFillings(row_hints, C, r - 1),
                         l \in LinesWithBlocks(row_hints[r], C)}

\* every fully determined board that satisfies all the clues
Solutions(row_hints, col_hints) ==
    {b \in RowFillings(row_hints, Len(col_hints), Len(row_hints)) :
        Satisfies(b, row_hints, col_hints)}

\* solve(), lines 336-341: the root call on the all-Unknown board
StartSolve(row_hints, col_hints) ==
    /\ mode' = "solve"
    /\ rowClues' = row_hints
    /\ colClues' = col_hints
    /\ stack' = <<Frame(EmptyBoard(Len(row_hints), Len(col_hints)), "start", <<0, 0>>)>>
    /\ ret' = None
    /\ calls' = 1
    /\ UNCHANGED <<lineVars, propVars, parseVars, cloneVars, uiVars>>

SolveIdle ==
    /\ rowClues = <<>> /\ colClues = <<>>
    /\ stack = <<>> /\ ret = None /\ calls = 0

PropIdle == propBoard = <<>> /\ propFirst = <<>> /\ propSecond = <<>> /\ validOut = <<>>

LineIdle ==
    /\ hints = <<>> /\ length = 0 /\ marked = <<>>
    /\ rangeOut = <<>> /\ patOut = <<>> /\ cellsOut = <<>> /\ genOut = <<>>

ParseIdle == fileText = <<>> /\ parsed = <<>>

CloneIdle == heap = <<>> /\ cstack = <<>> /\ cret = <<>>

UiIdle ==
    /\ uiBoard = <<>> /\ board_history = <<>> /\ passLines = <<>>
    /\ uiIteration = 0 /\ uiChanged = FALSE /\ uiPc = "none"
    /\ clicks = 0 /\ extracted = <<>>

\* solve() on the puzzle of a picture: every line's clue is the picture's blocks
SolvePicture ==
    /\ mode = "idle"
    /\ \E d \in Dims(MaxCells) : \E t \in Pictures(d[1], d[2]) :
        StartSolve([r \in 1..d[1] |-> get_blocks(t[r])],
                   [c \in 1..d[2] |-> get_blocks(ColumnOf(t, c))])

\* solve() on any clues, fitting or not, solvable or not
SolveFree ==
    /\ mode = "idle"
    /\ \E d \in Dims(MaxFreeCells) :
        \E rh \in [1..d[1] -> LineClues(d[2])], ch \in [1..d[2] -> LineClues(d[1])] :
            StartSolve(rh, ch)

Init ==
    /\ mode = "idle"
    /\ SolveIdle /\ LineIdle /\ PropIdle /\ ParseIdle /\ CloneIdle /\ UiIdle

Next ==
    \/ SolvePicture
    \/ SolveFree
    \/ CallLeaf
    \/ CallGuess
    \/ FilledReturned
    \/ BlankReturned

Spec == Init /\ [][Next]_vars

Done == mode = "solve" /\ stack = <<>>
NumRowClues == Len(rowClues)
NumColClues == Len(colClues)

----------------------------------------------------------------------------
(* The line solvers on their own: a clue, a length and a line state are    *)
(* chosen, then each solver is applied to them.                            *)

Cells == {-1, 0, 1}

LineSolverClues == {<<>>, <<0>>} \cup PositiveClues(MaxNeed)

LineInput ==
    /\ mode = "idle"
    /\ mode' = "line"
    /\ \E len \in 0..MaxLen :
          /\ length' = len
          /\ marked' \in [1..len -> Cells]
    /\ hints' \in LineSolverClues
    /\ UNCHANGED <<rangeOut, patOut, cellsOut, genOut,
                   clueVars, solveVars, propVars, parseVars, cloneVars, uiVars>>

ApplyRange ==
    /\ mode = "line"
    /\ rangeOut = <<>>
    /\ rangeOut' = <<determine_certain_by_range(hints, length, marked)>>
    /\ UNCHANGED <<mode, hints, length, marked, patOut, cellsOut, genOut,
                   clueVars, solveVars, propVars, parseVars, cloneVars, uiVars>>

ApplyPatterns ==
    /\ mode = "line"
    /\ patOut = <<>>
    /\ patOut' = <<determine_certain_by_patterns(hints, length, marked)>>
    /\ UNCHANGED <<mode, hints, length, marked, rangeOut, cellsOut, genOut,
                   clueVars, solveVars, propVars, parseVars, cloneVars, uiVars>>

ApplyCells ==
    /\ mode = "line"
    /\ cellsOut = <<>>
    /\ cellsOut' = <<determine_certain_cells(hints, length, marked)>>
    /\ UNCHANGED <<mode, hints, length, marked, rangeOut, patOut, genOut,
                   clueVars, solveVars, propVars, parseVars, cloneVars, uiVars>>

ApplyGenerate ==
    /\ mode = "line"
    /\ genOut = <<>>
    /\ genOut' = <<generate_all_patterns(hints, length, marked)>>
    /\ UNCHANGED <<mode, hints, length, marked, rangeOut, patOut, cellsOut,
                   clueVars, solveVars, propVars, parseVars, cloneVars, uiVars>>

LineNext == LineInput \/ ApplyRange \/ ApplyPatterns \/ ApplyCells \/ ApplyGenerate

LineSpec == Init /\ [][LineNext]_vars

----------------------------------------------------------------------------
(* solve_with_constraint_propagation on its own: clues and a board of any  *)
(* cell values are chosen, the engine is called on the board, and then     *)
(* called again on the board it returned.                                  *)

\* every clue that fits a line of len cells
FittingClues(len) == {<<0>>} \cup PositiveClues(len)

AllBoards(R, C) == [1..R -> [1..C -> Cells]]

Marks(board) ==
    Cardinality({rc \in (1..NumRows(board)) \X (1..NumCols(board)) :
                    board[rc[1]][rc[2]] # -1})

StartProp(row_hints, col_hints, board) ==
    /\ mode' = "prop"
    /\ rowClues' = row_hints
    /\ colClues' = col_hints
    /\ propBoard' = board
    /\ UNCHANGED <<propFirst, propSecond, validOut, lineVars, solveVars, parseVars, cloneVars, uiVars>>

\* clues that fit their lines, and a board of any cell values
PropInputFitting ==
    /\ mode = "idle"
    /\ \E d \in Dims(MaxPropCells) :
        \E rh \in [1..d[1] -> FittingClues(d[2])], ch \in [1..d[2] -> FittingClues(d[1])],
           b \in AllBoards(d[1], d[2]) :
            StartProp(rh, ch, b)

\* any clues, fitting or not, and a board with few determined cells
PropInputSparse ==
    /\ mode = "idle"
    /\ \E d \in Dims(MaxPropCells) :
        LET sparse == {b \in AllBoards(d[1], d[2]) : Marks(b) <= MaxPropMarks}
        IN  \E rh \in [1..d[1] -> LineClues(d[2])], ch \in [1..d[2] -> LineClues(d[1])],
               b \in sparse :
                StartProp(rh, ch, b)

Propagate ==
    /\ mode = "prop"
    /\ propFirst = <<>>
    /\ propFirst' = <<PropagationExit(propBoard, rowClues, colClues)>>
    /\ UNCHANGED <<mode, clueVars, propBoard, propSecond, validOut,
                   lineVars, solveVars, parseVars, cloneVars, uiVars>>

PropagateAgain ==
    /\ mode = "prop"
    /\ propFirst # <<>>
    /\ propSecond = <<>>
    /\ propSecond' = <<PropagationExit(propFirst[1].board, rowClues, colClues)>>
    /\ UNCHANGED <<mode, clueVars, propBoard, propFirst, validOut,
                   lineVars, solveVars, parseVars, cloneVars, uiVars>>

PropNext == PropInputFitting \/ PropInputSparse \/ Propagate \/ PropagateAgain

PropSpec == Init /\ [][PropNext]_vars

----------------------------------------------------------------------------
(* is_valid_board on its own: clues and a board of any cell values are     *)
(* chosen, and the validator is called on them.                            *)

ValidInput ==
    /\ mode = "idle"
    /\ mode' = "valid"
    /\ \E d \in Dims(MaxValidCells) :
          /\ rowClues' \in [1..d[1] -> FittingClues(d[2])]
          /\ colClues' \in [1..d[2] -> FittingClues(d[1])]
          /\ propBoard' \in AllBoards(d[1], d[2])
    /\ UNCHANGED <<propFirst, propSecond, validOut, lineVars, solveVars, parseVars, cloneVars, uiVars>>

Validate ==
    /\ mode = "valid"
    /\ validOut = <<>>
    /\ validOut' = <<is_valid_board(propBoard, rowClues, colClues)>>
    /\ UNCHANGED <<mode, clueVars, propBoard, propFirst, propSecond,
                   lineVars, solveVars, parseVars, cloneVars, uiVars>>

ValidNext == ValidInput \/ Validate

ValidSpec == Init /\ [][ValidNext]_vars

----------------------------------------------------------------------------
(* solve_with_backtrack with its boards as Python has them: a board is a   *)
(* list of row lists, each a mutable object.  heap holds the row lists; a  *)
(* board is the sequence of the ids of its rows.  Propagation writes into  *)
(* the rows of the board it is given, a guess into the rows of board_copy. *)

\* the cell values of a board of row ids
Deref(h, board) == [r \in 1..Len(board) |-> h[board[r]]]

\* board[:] instead of [row[:] for row in board]: a new list of the same rows
CloneBoardShared(h, board) == [heap |-> h, board |-> board]

\* lines 317 and 323, [row[:] for row in board]: a new list of new rows
CloneBoard(h, board) ==
    [heap  |-> h \o Deref(h, board),
     board |-> [r \in 1..Len(board) |-> Len(h) + r]]

\* lines 318 and 324, board_copy[unknown_row][unknown_col] = v
SetCell(h, board, rc, v) == [h EXCEPT ![board[rc[1]]][rc[2]] = v]

\* line 294: solve_with_constraint_propagation assigns board[r][col] in the
\* rows of its argument (lines 277 and 286) and returns the argument
PropagateInPlace(h, board) ==
    LET new == solve_with_constraint_propagation(Deref(h, board), rowClues, colClues)
    IN  [id \in 1..Len(h) |->
            IF \E r \in 1..Len(board) : board[r] = id
            THEN new[CHOOSE r \in 1..Len(board) : board[r] = id]
            ELSE h[id]]

\* an active call: its board, its position, the guessed cell, and the cell
\* values its board had when the Filled clone was taken (<<>> before)
CloneFrame(board, pc, rc, taken) ==
    [board |-> board, pc |-> pc, unknown |-> rc, taken |-> taken]

CloneTop == cstack[Len(cstack)]
ClonePop == SubSeq(cstack, 1, Len(cstack) - 1)

\* solve(), lines 336-341: the root call on a new all-Unknown board
StartClone(row_hints, col_hints) ==
    /\ mode' = "clone"
    /\ rowClues' = row_hints
    /\ colClues' = col_hints
    /\ heap' = EmptyBoard(Len(row_hints), Len(col_hints))
    /\ cstack' = <<CloneFrame([r \in 1..Len(row_hints) |-> r], "start", <<0, 0>>, <<>>)>>
    /\ cret' = None
    /\ UNCHANGED <<lineVars, solveVars, propVars, parseVars, uiVars>>

ClonePicture ==
    /\ mode = "idle"
    /\ \E d \in Dims(MaxCloneCells) : \E t \in Pictures(d[1], d[2]) :
        StartClone([r \in 1..d[1] |-> get_blocks(t[r])],
                   [c \in 1..d[2] |-> get_blocks(ColumnOf(t, c))])

CloneFree ==
    /\ mode = "idle"
    /\ \E d \in Dims(MaxCloneFreeCells) :
        \E rh \in [1..d[1] -> LineClues(d[2])], ch \in [1..d[2] -> LineClues(d[1])] :
            StartClone(rh, ch)

\* lines 294-315
CloneCallLeaf ==
    /\ mode = "clone"
    /\ cstack # <<>>
    /\ CloneTop.pc = "start"
    /\ LET h == PropagateInPlace(heap, CloneTop.board)
           board == Deref(h, CloneTop.board)
       IN  /\ UnknownCells(board) = {}
           /\ heap' = h
           /\ cret' = IF is_valid_board(board, rowClues, colClues)
                       THEN Some(CloneTop.board) ELSE None
    /\ cstack' = ClonePop
    /\ UNCHANGED <<mode, clueVars, lineVars, solveVars, propVars, parseVars, uiVars>>

\* lines 294-319
CloneCallGuess ==
    /\ mode = "clone"
    /\ cstack # <<>>
    /\ CloneTop.pc = "start"
    /\ LET h == PropagateInPlace(heap, CloneTop.board)
           board == Deref(h, CloneTop.board)
       IN  /\ UnknownCells(board) # {}
           /\ LET rc == FirstUnknown(board)
                  copy == CloneBoard(h, CloneTop.board)
              IN  /\ heap' = SetCell(copy.heap, copy.board, rc, 1)
                  /\ cstack' = ClonePop \o
                        <<CloneFrame(CloneTop.board, "filled", rc, board),
                          CloneFrame(copy.board, "start", <<0, 0>>, <<>>)>>
    /\ UNCHANGED <<mode, clueVars, cret, lineVars, solveVars, propVars, parseVars, uiVars>>

\* lines 320-325
CloneFilledReturned ==
    /\ mode = "clone"
    /\ cstack # <<>>
    /\ CloneTop.pc = "filled"
    /\ IF cret # None
       THEN /\ cstack' = ClonePop
            /\ UNCHANGED heap
       ELSE LET copy == CloneBoard(heap, CloneTop.board)
            IN  /\ heap' = SetCell(copy.heap, copy.board, CloneTop.unknown, 0)
                /\ cstack' = ClonePop \o
                      <<CloneFrame(CloneTop.board, "blank", CloneTop.unknown, CloneTop.taken),
                        CloneFrame(copy.board, "start", <<0, 0>>, <<>>)>>
    /\ UNCHANGED <<mode, clueVars, cret, lineVars, solveVars, propVars, parseVars, uiVars>>

\* lines 326-329
CloneBlankReturned ==
    /\ mode = "clone"
    /\ cstack # <<>>
    /\ CloneTop.pc = "blank"
    /\ cstack' = ClonePop
    /\ UNCHANGED <<mode, clueVars, heap, cret, lineVars, solveVars, propVars, parseVars, uiVars>>

CloneNext ==
    \/ ClonePicture
    \/ CloneFree
    \/ CloneCallLeaf
    \/ CloneCallGuess
    \/ CloneFilledReturned
    \/ CloneBlankReturned

CloneSpec == Init /\ [][CloneNext]_vars

----------------------------------------------------------------------------
(* The clue file: clues are saved, or a text is written by hand, and the   *)
(* file is parsed.                                                         *)

\* the numbers of the saved clues: zero, one digit, two digits
ParseInts == {0, 3, 12}

\* the non-empty clue sequences of non-empty clues with at most n numbers
RECURSIVE ClueSeqs(_)
ClueSeqs(n) ==
    IF n <= 0
    THEN {}
    ELSE UNION {{<<clue>> : clue \in [1..k -> ParseInts]}
                \cup {<<clue>> \o rest : clue \in [1..k -> ParseInts],
                                         rest \in ClueSeqs(n - k)} : k \in 1..n}

RECURSIVE Numbers(_)
Numbers(clues) == IF clues = <<>> THEN 0 ELSE Len(Head(clues)) + Numbers(Tail(clues))

TextChars == {"[", "]", ",", " ", "0", "1", "x", "\n"}

\* on_solve_clicked, lines 419-425: the clues are set and saved
SaveClues ==
    /\ mode = "idle"
    /\ mode' = "saved"
    /\ \E col \in ClueSeqs(MaxFileInts - 1) :
          \E row \in ClueSeqs(MaxFileInts - Numbers(col)) :
              /\ colClues' = col
              /\ rowClues' = row
              /\ fileText' = save_clues_to_file(col, row)
    /\ UNCHANGED <<parsed, lineVars, solveVars, propVars, cloneVars, uiVars>>

\* a clue file from elsewhere
WriteText ==
    /\ mode = "idle"
    /\ mode' = "written"
    /\ \E n \in 0..MaxText : fileText' \in [1..n -> TextChars]
    /\ UNCHANGED <<parsed, clueVars, lineVars, solveVars, propVars, cloneVars, uiVars>>

ParseInput ==
    /\ mode \in {"saved", "written"}
    /\ parsed = <<>>
    /\ parsed' = <<parse_input(fileText)>>
    /\ UNCHANGED <<mode, fileText, clueVars, lineVars, solveVars, propVars, cloneVars, uiVars>>

ParseNext == SaveClues \/ WriteText \/ ParseInput

ParseSpec == Init /\ [][ParseNext]_vars

----------------------------------------------------------------------------
(* NonogramUI: the window's clues, board and board_history.  The board and *)
(* the snapshots are lists of row lists, held as row ids of heap.  The     *)
(* constructor and a click on the solve button each end in solve_puzzle,   *)
(* whose loop alternates one iteration over the columns and one over the   *)
(* rows, and appends a snapshot after each iteration.                      *)

MaxUiCells == 4      \* most cells of a picture puzzle shown in the window
MaxUiFreeCells == 2  \* most cells of a free-clue puzzle shown in the window
MaxClicks == 1       \* most clicks on the solve button

\* max_iterations of solve_puzzle, line 480
ui_max_iterations == 10

\* the puzzles the window is given: of a picture, or of any clues
UiPuzzles ==
    UNION {{[row |-> [r \in 1..d[1] |-> get_blocks(t[r])],
             col |-> [c \in 1..d[2] |-> get_blocks(ColumnOf(t, c))]] :
                t \in Pictures(d[1], d[2])} : d \in Dims(MaxUiCells)}
    \cup
    UNION {{[row |-> rh, col |-> ch] :
                rh \in [1..d[1] -> LineClues(d[2])], ch \in [1..d[2] -> LineClues(d[1])]} :
           d \in Dims(MaxUiFreeCells)}

\* lines 503 and 522: the cells are assigned in the rows of self.board
StoreRows(h, board, cells) ==
    [id \in 1..Len(h) |->
        IF \E r \in 1..Len(board) : board[r] = id
        THEN cells[CHOOSE r \in 1..Len(board) : board[r] = id]
        ELSE h[id]]

\* self.board itself appended instead of a copy of its rows
SnapshotBoardShared(h, board) == [heap |-> h, board |-> board]

\* line 526, [row[:] for row in self.board]: a new list of new rows
SnapshotBoard(h, board) ==
    [heap  |-> h \o Deref(h, board),
     board |-> [r \in 1..Len(board) |-> Len(h) + r]]

\* the lines one iteration dispatches: the columns in an even iteration
\* (lines 490-504), the rows in an odd one (lines 507-523)
IterationLines(it, R, C) ==
    IF it % 2 = 0 THEN [k \in 1..C |-> <<"col", k>>] ELSE [k \in 1..R |-> <<"row", k>>]

\* line 422 without the assignment: the snapshots of the puzzle before stay
ClickedHistoryKept == board_history

\* line 422, self.board_history = []
ClickedHistory == <<>>

\* __init__, lines 351-354 and 399: the clues are stored (None or [] as []),
\* and solve_puzzle is called
UiConstruct ==
    /\ mode = "idle"
    /\ mode' = "ui"
    /\ \E p \in UiPuzzles \cup {[row |-> <<>>, col |-> <<>>]} :
          /\ rowClues' = p.row
          /\ colClues' = p.col
    /\ uiBoard' = None
    /\ board_history' = <<>>
    /\ uiPc' = "solve"
    /\ UNCHANGED <<passLines, uiIteration, uiChanged, clicks, extracted,
                   lineVars, solveVars, propVars, parseVars, cloneVars>>

\* solve_puzzle, lines 472-478: nothing without clues; else a new
\* all-Unknown board and an empty history
UiSolveEnter ==
    /\ mode = "ui"
    /\ uiPc = "solve"
    /\ IF rowClues = <<>> \/ colClues = <<>>
       THEN /\ uiPc' = "ready"
            /\ UNCHANGED <<heap, uiBoard, board_history, passLines, uiIteration, uiChanged>>
       ELSE /\ heap' = heap \o EmptyBoard(Len(rowClues), Len(colClues))
            /\ uiBoard' = Some([r \in 1..Len(rowClues) |-> Len(heap) + r])
            /\ board_history' = <<>>
            /\ passLines' = <<>>
            /\ uiIteration' = 0
            /\ uiChanged' = FALSE
            /\ uiPc' = "loop"
    /\ UNCHANGED <<mode, clueVars, clicks, extracted, cstack, cret,
                   lineVars, solveVars, propVars, parseVars>>

\* one iteration of the loop of solve_puzzle, lines 482-533
UiIterate ==
    /\ mode = "ui"
    /\ uiPc = "loop"
    /\ LET start == [board |-> Deref(heap, uiBoard[1]), changed |-> FALSE]
           st == IF uiIteration % 2 = 0
                 THEN ColumnsLoop(start, colClues, 1)
                 ELSE RowsLoop(start, rowClues, 1)
           snapshot == SnapshotBoard(StoreRows(heap, uiBoard[1], st.board), uiBoard[1])
       IN  /\ heap' = snapshot.heap
           /\ board_history' = Append(board_history, snapshot.board)
           /\ passLines' = Append(passLines,
                                  IterationLines(uiIteration, Len(rowClues), Len(colClues)))
           /\ uiChanged' = st.changed
           /\ uiPc' = IF ~st.changed \/ uiIteration + 1 >= ui_max_iterations
                      THEN "ready" ELSE "loop"
    /\ uiIteration' = uiIteration + 1
    /\ UNCHANGED <<mode, clueVars, uiBoard, clicks, extracted, cstack, cret,
                   lineVars, solveVars, propVars, parseVars>>

\* what extract_func returns: each of the two clue lists, or None for it
ExtractResults ==
    {[col |-> IF colOk THEN Some(p.col) ELSE None,
      row |-> IF rowOk THEN Some(p.row) ELSE None] :
        p \in UiPuzzles, colOk \in BOOLEAN, rowOk \in BOOLEAN}

\* on_solve_clicked, lines 404-413: no combo box, no selection, no
\* extract_func, or a selection past the file list; nothing is extracted
UiClickIgnored ==
    /\ mode = "ui"
    /\ uiPc = "ready"
    /\ clicks < MaxClicks
    /\ clicks' = clicks + 1
    /\ extracted' = <<>>
    /\ UNCHANGED <<mode, clueVars, uiBoard, board_history, passLines, uiIteration,
                   uiChanged, uiPc, lineVars, solveVars, propVars, parseVars, cloneVars>>

\* on_solve_clicked, lines 414-425: the clues are extracted; when both are
\* there they replace the window's, the board and the history are reset
\* and the clues are saved; solve_puzzle (line 427) comes next
UiClick ==
    /\ mode = "ui"
    /\ uiPc = "ready"
    /\ clicks < MaxClicks
    /\ clicks' = clicks + 1
    /\ \E result \in ExtractResults :
          /\ extracted' = <<result>>
          /\ IF result.col # None /\ result.row # None
             THEN /\ rowClues' = result.row[1]
                  /\ colClues' = result.col[1]
                  /\ uiBoard' = None
                  /\ board_history' = ClickedHistory
                  /\ passLines' = <<>>
                  /\ fileText' = save_clues_to_file(result.col[1], result.row[1])
                  /\ uiPc' = "solve"
             ELSE UNCHANGED <<clueVars, uiBoard, board_history, passLines, fileText, uiPc>>
    /\ UNCHANGED <<mode, uiIteration, uiChanged, parsed,
                   lineVars, solveVars, propVars, cloneVars>>

UiNext ==
    \/ UiConstruct
    \/ UiSolveEnter
    \/ UiIterate
    \/ UiClickIgnored
    \/ UiClick

UiSpec == Init /\ [][UiNext]_vars

----------------------------------------------------------------------------

(* The line solvers, the propagation engine and the search side by side:   *)
(* every function that writes cells, each on its own inputs.               *)

WriteNext == LineNext \/ PropNext \/ Next

WriteSpec == Init /\ [][WriteNext]_vars

----------------------------------------------------------------------------

(* solve_with_constraint_propagation on the boards that have a solution:   *)
(* the clues are those of a picture, the board is the picture with any of  *)
(* its cells made Unknown.                                                 *)

MaxSoundCells == 6  \* most cells of a picture given to propagation in part

PropInputPartial ==
    /\ mode = "idle"
    /\ \E d \in Dims(MaxSoundCells) : \E t \in Pictures(d[1], d[2]) :
        \E b \in {x \in AllBoards(d[1], d[2]) :
                     \A r \in 1..d[1], c \in 1..d[2] : x[r][c] \in {-1, t[r][c]}} :
            StartProp([r \in 1..d[1] |-> get_blocks(t[r])],
                      [c \in 1..d[2] |-> get_blocks(ColumnOf(t, c))], b)

SoundNext == PropInputPartial \/ Propagate

SoundSpec == Init /\ [][SoundNext]_vars

----------------------------------------------------------------------------

(* solve_with_backtrack as a function of its arguments, and the search on  *)
(* puzzles in which one clue [0] is written as the empty clue [].          *)

MaxEmptyCells == 6  \* most cells of a puzzle with an empty clue

\* lines 292-329: the board returned, or None
RECURSIVE solve_with_backtrack(_, _, _)
solve_with_backtrack(argument, row_hints, col_hints) ==
    LET board == solve_with_constraint_propagation(argument, row_hints, col_hints)
    IN  IF UnknownCells(board) = {}
        THEN IF is_valid_board(board, row_hints, col_hints) THEN Some(board) ELSE None
        ELSE LET rc == FirstUnknown(board)
                 result == solve_with_backtrack(GuessCopy(board, rc, 1), row_hints, col_hints)
             IN  IF result # None
                 THEN result
                 ELSE solve_with_backtrack(GuessCopy(board, rc, 0), row_hints, col_hints)

\* solve() on the puzzle of a picture with the clue [0] of one row as []
SolveEmptyRowClue ==
    /\ mode = "idle"
    /\ \E d \in Dims(MaxEmptyCells) : \E t \in Pictures(d[1], d[2]) :
        \E r \in {x \in 1..d[1] : get_blocks(t[x]) = <<0>>} :
            StartSolve([x \in 1..d[1] |-> IF x = r THEN <<>> ELSE get_blocks(t[x])],
                       [c \in 1..d[2] |-> get_blocks(ColumnOf(t, c))])

\* solve() on the puzzle of a picture with the clue [0] of one column as []
SolveEmptyColumnClue ==
    /\ mode = "idle"
    /\ \E d \in Dims(MaxEmptyCells) : \E t \in Pictures(d[1], d[2]) :
        \E c \in {x \in 1..d[2] : get_blocks(ColumnOf(t, x)) = <<0>>} :
            StartSolve([r \in 1..d[1] |-> get_blocks(t[r])],
                       [x \in 1..d[2] |-> IF x = c THEN <<>> ELSE get_blocks(ColumnOf(t, x))])

EmptyNext ==
    \/ SolveEmptyRowClue
    \/ SolveEmptyColumnClue
    \/ CallLeaf
    \/ CallGuess
    \/ FilledReturned
    \/ BlankReturned

EmptySpec == Init /\ [][EmptyNext]_vars

----------------------------------------------------------------------------

(* solve() on puzzles without rows or without columns. *)

MaxDegenerateLines == 3  \* most clues of the dimension that is not empty
MaxDegenerateNeed == 3   \* most cells such a clue needs

DegenerateClues == {<<0>>} \cup PositiveClues(MaxDegenerateNeed)

\* solve() with an empty row_hints: the board is []
SolveNoRows ==
    /\ mode = "idle"
    /\ \E n \in 0..MaxDegenerateLines : \E ch \in [1..n -> DegenerateClues] :
        StartSolve(<<>>, ch)

\* solve() with an empty col_hints: the board is a list of empty rows
SolveNoColumns ==
    /\ mode = "idle"
    /\ \E n \in 1..MaxDegenerateLines : \E rh \in [1..n -> DegenerateClues] :
        StartSolve(rh, <<>>)

DegenerateNext == SolveNoRows \/ SolveNoColumns \/ CallLeaf

DegenerateSpec == Init /\ [][DegenerateNext]_vars

----------------------------------------------------------------------------

(* Properties of solve_with_backtrack *)

IsBoardOf(b, R, C) ==
    /\ Len(b) = R
    /\ \A r \in 1..R : Len(b[r]) = C /\ \A c \in 1..C : b[r][c] \in {-1, 0, 1}

Ones3 == <<1, 1, 1>>
Clue1x3 == <<<<1>>, <<1>>, <<1>>>>
Clue3x3 == <<<<3>>, <<3>>, <<3>>>>

\* C1: a board returned by solve_with_backtrack has no Unknown cell, has
\* len(rowClues) rows and len(colClues) columns, and the blocks of every
\* row and of every column equal the line's clue.
C1_ReturnedBoardMatchesClues ==
    (Done /\ ret # None) =>
        LET b == ret[1]
        IN  /\ IsBoardOf(b, NumRowClues, NumColClues)
            /\ \A r \in 1..NumRowClues : NoUnknown(b[r])
            /\ \A r \in 1..NumRowClues : get_blocks(b[r]) = rowClues[r]
            /\ \A c \in 1..NumColClues : get_blocks(ColumnOf(b, c)) = colClues[c]

\* a board was returned after at least one guess
C1_Witness == Done /\ ret # None /\ calls > 1

\* C2: when some fully determined board satisfies all the clues, the search
\* from the all-Unknown board returns a board, never None.
C2_SearchComplete ==
    (Done /\ Solutions(rowClues, colClues) # {}) => ret # None

\* the ambiguous 3 x 3 puzzle of single cells is solved after guessing
C2_Witness ==
    /\ Done /\ rowClues = Clue1x3 /\ colClues = Clue1x3
    /\ Cardinality(Solutions(rowClues, colClues)) > 1
    /\ calls > 1 /\ ret # None

\* C3: when exactly one board satisfies all the clues, that board is the
\* one returned.
C3_UniqueSolutionReturned ==
    (Done /\ Cardinality(Solutions(rowClues, colClues)) = 1) =>
        (ret # None /\ ret[1] \in Solutions(rowClues, colClues))

\* the 3 x 3 puzzle of full lines returns the board of nine Filled cells
C3_Witness ==
    /\ Done /\ rowClues = Clue3x3 /\ colClues = Clue3x3
    /\ ret = Some(<<Ones3, Ones3, Ones3>>)

\* some clue other than [0] needs more cells than its line has
SomeClueTooLong ==
    \/ \E r \in 1..NumRowClues : ~Fits(rowClues[r], NumColClues)
    \/ \E c \in 1..NumColClues : ~Fits(colClues[c], NumRowClues)

Outcome == ret = None \/ (Len(ret) = 1 /\ IsBoardOf(ret[1], NumRowClues, NumColClues))

\* a call that has not returned has a next step: its frame is at one of
\* the three positions, each of which has an action
CanStep == stack # <<>> => Top.pc \in {"start", "filled", "blank"}

RECURSIVE Pow2(_)
Pow2(n) == IF n <= 0 THEN 1 ELSE 2 * Pow2(n - 1)

\* the most steps a call entered with u Unknown cells can take
StepsOfCall(u) == Pow2(u + 2) - 3

\* the most steps the calls of the stack can still take
FrameSteps(f) ==
    LET u == Cardinality(UnknownCells(f.board))
    IN  CASE f.pc = "start"  -> StepsOfCall(u)
          [] f.pc = "filled" -> 2 + StepsOfCall(u - 1)
          [] f.pc = "blank"  -> 1

RECURSIVE StepsLeft(_)
StepsLeft(st) == IF st = <<>> THEN 0 ELSE FrameSteps(Head(st)) + StepsLeft(Tail(st))

\* C8: solve_with_backtrack terminates, and what it returns is a board or
\* None: every step of a running search lowers a bound on the steps left,
\* a search that has not returned can take a step, and one that has
\* returned holds a board or None.
C8_Terminates ==
    [][mode = "solve" =>
          /\ StepsLeft(stack') < StepsLeft(stack)
          /\ CanStep'
          /\ Done' => Outcome']_vars

\* a search that guessed, met a failing Filled branch, and still ended
C8_Witness == Done /\ Outcome /\ calls > 2

----------------------------------------------------------------------------
(* Properties of the propagation engine and of the line solvers *)

\* C5: when solve_with_constraint_propagation returned because a pass
\* changed no cell, calling it again on the board it returned changes no
\* cell.
C5_FixpointIdempotent ==
    (propSecond # <<>> /\ ~propFirst[1].changed) =>
        propSecond[1].board = propFirst[1].board

\* the first call needed more than one pass and determined cells, and the
\* second call has run
C5_Witness ==
    /\ propSecond # <<>>
    /\ ~propFirst[1].changed
    /\ propFirst[1].iteration > 2
    /\ propFirst[1].board # propBoard

AllUnknown(line) == \A i \in 1..Len(line) : line[i] = -1

\* C6: on a line of Unknown cells, every cell that
\* determine_certain_by_range sets is set to the same value by
\* determine_certain_by_patterns, whether or not the clue fits the line.
C6_RangeWithinPatterns ==
    (rangeOut # <<>> /\ patOut # <<>> /\ AllUnknown(marked)) =>
        \A i \in 1..length :
            rangeOut[1][i] # -1 => patOut[1][i] = rangeOut[1][i]

\* sum of s[from..to], 1-based, empty when from > to
RECURSIVE SumFromTo(_, _, _)
SumFromTo(s, from, to) == IF from > to THEN 0 ELSE s[from] + SumFromTo(s, from + 1, to)

IsPositiveClue(clue) == clue # <<>> /\ \A k \in 1..Len(clue) : clue[k] > 0

\* the interval of block k (1-based) in 0-based cell positions:
\* [L - b_k - (sum(b_{k+1..n}) + (n - k)), sum(b_1..b_{k-1}) + (k - 1) + b_k - 1]
InBlockInterval(clue, len, k, cell) ==
    /\ len - clue[k] - (SumFromTo(clue, k + 1, Len(clue)) + (Len(clue) - k)) <= cell
    /\ cell <= SumFromTo(clue, 1, k - 1) + (k - 1) + clue[k] - 1

\* C7: for a clue of positive blocks, determine_certain_by_range returns
\* the line with exactly the Unknown cells that lie in some block's interval
\* set to Filled and every other cell unchanged.
C7_RangeMarksIntervals ==
    (rangeOut # <<>> /\ IsPositiveClue(hints)) =>
        /\ Len(rangeOut[1]) = length
        /\ \A i \in 1..length :
              rangeOut[1][i] =
                  IF marked[i] = -1
                     /\ \E k \in 1..Len(hints) : InBlockInterval(hints, length, k, i - 1)
                  THEN 1
                  ELSE marked[i]

\* length 5, clue [3], all Unknown: only index 2 becomes Filled
C7_Witness ==
    /\ hints = <<3>> /\ length = 5 /\ AllUnknown(marked)
    /\ rangeOut = <<<<-1, -1, 1, -1, -1>>>>

----------------------------------------------------------------------------
(* Properties of the clue file *)

\* C9: clues written by save_clues_to_file and read back by parse_input
\* are the clues that were written, row clues as row clues and column clues
\* as column clues, element for element.
C9_RoundTrip ==
    (mode = "saved" /\ parsed # <<>>) =>
        parsed[1] = Returned(Py(rowClues), Py(colClues))

\* a file of several clues with a two-digit number and a zero was read back
C9_Witness ==
    /\ mode = "saved" /\ parsed # <<>>
    /\ Len(colClues) > 1
    /\ rowClues # colClues
    /\ \E k \in 1..Len(rowClues) : \E j \in 1..Len(rowClues[k]) : rowClues[k][j] = 12
    /\ \E k \in 1..Len(colClues) : \E j \in 1..Len(colClues[k]) : colClues[k][j] = 0

\* one bracketed group of numbers starting at token i: the index after it,
\* 0 when there is none
RECURSIVE GroupEnd(_, _)
GroupNumbers(toks, i) ==
    IF Kind(toks, i) # "int" THEN 0
    ELSE IF Kind(toks, i + 1) = "]" THEN i + 2
    ELSE IF Kind(toks, i + 1) = "," THEN GroupEnd(toks, i + 2)
    ELSE 0
GroupEnd(toks, i) == GroupNumbers(toks, i)

RECURSIVE IsGroups(_, _)
IsGroups(toks, i) ==
    /\ Kind(toks, i) = "["
    /\ LET e == GroupEnd(toks, i + 1)
       IN  /\ e # 0
           /\ \/ e = Len(toks) + 1
              \/ Kind(toks, e) = "," /\ IsGroups(toks, e + 1)

\* the two documented forms of a clue line: [[a,b],[c],...] and [a,b],[c],...
WellFormed(line) ==
    LET toks == Tokens(Strip(line), 1)
    IN  \/ IsGroups(toks, 1)
        \/ /\ Len(toks) >= 2
           /\ Kind(toks, 1) = "[" /\ Kind(toks, Len(toks)) = "]"
           /\ IsGroups(SubSeq(toks, 2, Len(toks) - 1), 1)

\* line k of the file is missing, empty or malformed
BadLine(text, k) ==
    \/ Len(readlines(text)) < k
    \/ Strip(readlines(text)[k]) = <<>>
    \/ ~WellFormed(readlines(text)[k])

\* C10: parse_input raises no error, and returns an empty clue sequence
\* for a dimension whose line is empty, missing or malformed.
C10_BadLineGivesEmpty ==
    (mode = "written" /\ parsed # <<>>) =>
        /\ parsed[1].status = "returned"
        /\ BadLine(fileText, 1) => parsed[1].col_hints = PyList(<<>>)
        /\ BadLine(fileText, 2) => parsed[1].row_hints = PyList(<<>>)

----------------------------------------------------------------------------
(* Properties of the line solvers, continued *)

\* a clue as the solver is given one: positive blocks, or [0]
IsClue(clue) == clue = <<0>> \/ IsPositiveClue(clue)

HasMark(line) == \E i \in 1..Len(line) : line[i] # -1

\* the full line l has the value of every Filled or Blank cell of line
Agrees(line, l) == \A i \in 1..Len(line) : line[i] = -1 \/ line[i] = l[i]

\* the Filled/Blank lines of len cells whose get_blocks is the clue and
\* which agree with the marks of line
ValidLines(clue, len, line) == {l \in LinesWithBlocks(clue, len) : Agrees(line, l)}

\* C11: for a clue, [0] included, and a line state with which no full
\* line of the clue's blocks agrees, determine_certain_by_patterns, and
\* determine_certain_cells on a line with a mark, return the line unchanged.
C11_ContradictoryLineUnchanged ==
    (IsClue(hints) /\ Len(marked) = length /\ ValidLines(hints, length, marked) = {}) =>
        /\ patOut # <<>> => patOut[1] = marked
        /\ (cellsOut # <<>> /\ HasMark(marked)) => cellsOut[1] = marked

\* C12: for a clue of positive blocks that needs more cells than the line
\* has, determine_certain_by_range returns the line with no cell changed.
C12_RangeLeavesInfeasibleLine ==
    (rangeOut # <<>> /\ IsPositiveClue(hints) /\ Need(hints) > length) =>
        rangeOut[1] = marked

NoDuplicates(s) == \A a, b \in 1..Len(s) : a # b => s[a] # s[b]

Elements(s) == {s[k] : k \in 1..Len(s)}

\* C13: for a clue of positive blocks, generate_all_patterns returns each
\* valid line exactly once and nothing else; and when there is a valid
\* line, determine_certain_by_patterns sets an Unknown cell to v exactly
\* when every valid line has v there, and leaves every other cell as it was.
C13_PatternsAreValidLines ==
    IsPositiveClue(hints) =>
        LET valid == ValidLines(hints, length, marked)
        IN  /\ genOut # <<>> =>
                  /\ NoDuplicates(genOut[1])
                  /\ Elements(genOut[1]) = valid
            /\ (patOut # <<>> /\ valid # {}) =>
                  /\ Len(patOut[1]) = length
                  /\ \A i \in 1..length :
                        IF marked[i] = -1
                        THEN /\ patOut[1][i] \in {-1, 0, 1}
                             /\ \A v \in {0, 1} :
                                   patOut[1][i] = v <=> \A l \in valid : l[i] = v
                        ELSE patOut[1][i] = marked[i]

\* a marked line with several valid lines: some cell was set, some was not
C13_Witness ==
    /\ genOut # <<>> /\ patOut # <<>> /\ IsPositiveClue(hints)
    /\ Len(genOut[1]) >= 2
    /\ HasMark(marked)
    /\ \E i \in 1..length : marked[i] = -1 /\ patOut[1][i] # -1
    /\ \E i \in 1..length : patOut[1][i] = -1

\* the elements of a set of numbers in increasing order
RECURSIVE Ascending(_)
Ascending(S) ==
    IF S = {} THEN <<>>
    ELSE LET least == CHOOSE x \in S : \A y \in S : x <= y
         IN  <<least>> \o Ascending(S \ {least})

\* where the runs of Filled cells of a line start and end
RunStarts(l) == Ascending({i \in 1..Len(l) : l[i] = 1 /\ (i = 1 \/ l[i - 1] # 1)})
RunEnds(l) == Ascending({i \in 1..Len(l) : l[i] = 1 /\ (i = Len(l) \/ l[i + 1] # 1)})

\* the number of cells between run k and run k + 1
Gap(l, k) == RunStarts(l)[k + 1] - RunEnds(l)[k] - 1

\* C14, as the code has it: in every pattern enumerated for a clue of two
\* or more blocks, the runs of Filled cells are the clue's blocks in order,
\* and each is separated from the next by at least one cell, all Blank.
C14_BlocksSeparatedByBlank ==
    (genOut # <<>> /\ IsPositiveClue(hints) /\ Len(hints) >= 2) =>
        \A p \in 1..Len(genOut[1]) :
            LET l == genOut[1][p]
            IN  /\ Len(RunStarts(l)) = Len(hints)
                /\ \A k \in 1..Len(hints) : RunEnds(l)[k] - RunStarts(l)[k] + 1 = hints[k]
                /\ \A k \in 1..(Len(hints) - 1) :
                      /\ Gap(l, k) >= 1
                      /\ \A i \in (RunEnds(l)[k] + 1)..(RunStarts(l)[k + 1] - 1) : l[i] = 0

\* clue [1, 1] on four Unknown cells: the pattern with two Blank cells
\* between the blocks is enumerated
C14_Witness ==
    /\ genOut # <<>> /\ hints = <<1, 1>> /\ length = 4 /\ AllUnknown(marked)
    /\ \E p \in 1..Len(genOut[1]) : genOut[1][p] = <<1, 0, 0, 1>>

\* C14 as stated: each block is separated from the next by exactly one
\* Blank cell.
C14_ExactlyOneBlank ==
    (genOut # <<>> /\ IsPositiveClue(hints) /\ Len(hints) >= 2) =>
        \A p \in 1..Len(genOut[1]) :
            \A k \in 1..(Len(RunStarts(genOut[1][p])) - 1) : Gap(genOut[1][p], k) = 1

----------------------------------------------------------------------------
(* Properties of the propagation engine, continued *)

\* the lines of an R x C board in the order of a pass: columns 1..C, then
\* rows 1..R
LineOrder(R, C) ==
    [k \in 1..(C + R) |-> IF k <= C THEN <<"col", k>> ELSE <<"row", k - C>>]

LineClue(ln, row_hints, col_hints) ==
    IF ln[1] = "col" THEN col_hints[ln[2]] ELSE row_hints[ln[2]]

\* the cells of line ln as the board has them now
LineOf(board, ln) ==
    IF ln[1] = "col"
    THEN [r \in 1..Len(board) |-> board[r][ln[2]]]
    ELSE board[ln[2]]

WithLine(board, ln, cells) ==
    [r \in 1..Len(board) |->
        [c \in 1..Len(board[r]) |->
            IF ln[1] = "col" /\ c = ln[2] THEN cells[r]
            ELSE IF ln[1] = "row" /\ r = ln[2] THEN cells[c]
            ELSE board[r][c]]]

\* the dispatcher applied to the lines order[k..], each read from the board
\* as the earlier lines left it
RECURSIVE LinesInOrder(_, _, _, _, _)
LinesInOrder(board, order, k, row_hints, col_hints) ==
    IF k > Len(order)
    THEN board
    ELSE LET ln == order[k]
             cells == determine_certain_cells(LineClue(ln, row_hints, col_hints),
                                              Len(LineOf(board, ln)), LineOf(board, ln))
         IN  LinesInOrder(WithLine(board, ln, cells), order, k + 1, row_hints, col_hints)

\* passes in that order, from pass number n on: another pass is run exactly
\* when the pass changed a cell and fewer than 1000 passes have run
RECURSIVE PassesInOrder(_, _, _, _)
PassesInOrder(board, n, row_hints, col_hints) ==
    LET after == LinesInOrder(board, LineOrder(Len(row_hints), Len(col_hints)), 1,
                              row_hints, col_hints)
    IN  IF after # board /\ n < 1000
        THEN PassesInOrder(after, n + 1, row_hints, col_hints)
        ELSE [board |-> after, changed |-> after # board, iteration |-> n]

\* C16: solve_with_constraint_propagation ends with the board, the number
\* of passes and the changed flag of passes that each apply the dispatcher
\* to columns 0..C-1 in order and then to rows 0..R-1 in order, every line
\* read from the board as updated so far, and that repeat exactly while a
\* pass changed a cell and fewer than 1000 passes have run.
C16_PassOrder ==
    propFirst # <<>> =>
        propFirst[1] = PassesInOrder(propBoard, 1, rowClues, colClues)

\* a board of several rows and columns that took three passes
C16_Witness ==
    /\ propFirst # <<>>
    /\ NumRowClues >= 2 /\ NumColClues >= 2
    /\ propFirst[1].iteration >= 3
    /\ propFirst[1].board # propBoard

----------------------------------------------------------------------------
(* Properties of the validator *)

\* the rows and the columns of the board
BoardLines(board) ==
    {<<"row", r>> : r \in 1..Len(board)} \cup {<<"col", c>> : c \in 1..NumColClues}

Complete(line) == \A i \in 1..Len(line) : line[i] \in {0, 1}

\* C20: is_valid_board returns False exactly when some row or column
\* without an Unknown cell has get_blocks different from its clue; so a
\* board without any Unknown cell is accepted exactly when every row and
\* every column matches its clue.
C20_ValidatorChecksCompleteLines ==
    validOut # <<>> =>
        /\ validOut[1] = FALSE <=>
               \E ln \in BoardLines(propBoard) :
                   /\ Complete(LineOf(propBoard, ln))
                   /\ get_blocks(LineOf(propBoard, ln)) # LineClue(ln, rowClues, colClues)
        /\ (\A ln \in BoardLines(propBoard) : Complete(LineOf(propBoard, ln))) =>
               (validOut[1] = TRUE <=>
                   \A ln \in BoardLines(propBoard) :
                       get_blocks(LineOf(propBoard, ln)) = LineClue(ln, rowClues, colClues))

\* a board is accepted that has a line with an Unknown cell whose blocks
\* are not its clue, and a line without Unknown cells
C20_Witness ==
    /\ validOut = <<TRUE>>
    /\ \E ln \in BoardLines(propBoard) :
          /\ ~Complete(LineOf(propBoard, ln))
          /\ get_blocks(LineOf(propBoard, ln)) # LineClue(ln, rowClues, colClues)
    /\ \E ln \in BoardLines(propBoard) :
          /\ Complete(LineOf(propBoard, ln))
          /\ \E i \in 1..Len(LineOf(propBoard, ln)) : LineOf(propBoard, ln)[i] = 1

----------------------------------------------------------------------------
(* Properties of the order and the depth of the search *)

\* a nested call was made in this step; the caller is the frame below the
\* new top frame
Pushed == Len(stack') = Len(stack) + 1
Caller == stack'[Len(stack)]
Callee == stack'[Len(stack) + 1]

RowMajorBefore(a, b) == a[1] < b[1] \/ (a[1] = b[1] /\ a[2] < b[2])

\* C17: in every nested call the guessed cell is the first Unknown cell,
\* in row-major order, of the caller's propagated board; the Filled guess
\* is made first, the Blank guess only after the Filled call has returned
\* None; once a call has returned a board, that board is passed up
\* unchanged and no further call is made.
C17_GuessOrder ==
    [][mode = "solve" =>
          /\ Pushed =>
                LET g == Caller.unknown
                IN  /\ ret = None
                    /\ Caller.board[g[1]][g[2]] = -1
                    /\ \A r \in 1..NumRowClues, c \in 1..NumColClues :
                          RowMajorBefore(<<r, c>>, g) => Caller.board[r][c] # -1
                    /\ Top.pc = "start" =>
                          /\ Caller.pc = "filled"
                          /\ Caller.board =
                                solve_with_constraint_propagation(Top.board, rowClues, colClues)
                    /\ Top.pc # "start" =>
                          /\ Top.pc = "filled" /\ Caller.pc = "blank"
                          /\ Caller.board = Top.board /\ g = Top.unknown
                    /\ Callee.pc = "start"
                    /\ Callee.board =
                          [Caller.board EXCEPT ![g[1]][g[2]] =
                              IF Caller.pc = "filled" THEN 1 ELSE 0]
          /\ ret # None => (ret' = ret /\ ~Pushed)]_vars

\* a board is on its way up through a call whose Filled guess had failed
C17_Witness ==
    /\ mode = "solve" /\ ret # None
    /\ \E k \in 1..Len(stack) : stack[k].pc = "blank"

Unknowns(board) == Cardinality(UnknownCells(board))

\* C19: the number of calls nested below the root call never exceeds the
\* number of Unknown cells of the root call's board, and every nested call
\* receives a board with fewer Unknown cells than its caller's.
C19_DepthBounded ==
    [][mode' = "solve" =>
          /\ Len(stack') - 1 <= Unknowns(EmptyBoard(NumRowClues', NumColClues'))
          /\ (mode = "solve" /\ Pushed) => Unknowns(Callee.board) < Unknowns(Top.board)]_vars

\* a call is nested in a call nested in the root call
C19_Witness == mode = "solve" /\ Len(stack) >= 3 /\ Unknowns(Top.board) >= 1

----------------------------------------------------------------------------
(* Properties of the boards of the search *)

RowIds(f) == {f.board[r] : r \in 1..Len(f.board)}

\* C18: the rows of a call's board are rows of no other call's board; the
\* board of a call that has taken its Filled clone stays, cell for cell,
\* what it was when the clone was taken, through the whole Filled search,
\* its failure and the Blank search; and a clone just taken is that board
\* with the single guessed cell set, Filled first, Blank after.
C18_BranchIsolation ==
    mode = "clone" =>
        /\ \A j, k \in 1..Len(cstack) : j # k => RowIds(cstack[j]) \cap RowIds(cstack[k]) = {}
        /\ \A k \in 1..Len(cstack) :
              cstack[k].pc \in {"filled", "blank"} =>
                  Deref(heap, cstack[k].board) = cstack[k].taken
        /\ \A k \in 2..Len(cstack) :
              cstack[k].pc = "start" =>
                  LET g == cstack[k - 1].unknown
                  IN  Deref(heap, cstack[k].board) =
                          [cstack[k - 1].taken EXCEPT ![g[1]][g[2]] =
                              IF cstack[k - 1].pc = "filled" THEN 1 ELSE 0]

\* the Filled search of a call has failed after writing cells, and the
\* Blank clone has been taken
C18_Witness ==
    /\ mode = "clone" /\ Len(cstack) >= 2
    /\ cstack[Len(cstack)].pc = "start"
    /\ cstack[Len(cstack) - 1].pc = "blank"
    /\ Unknowns(cstack[Len(cstack) - 1].taken) >= 2
    /\ Len(heap) >= 3 * NumRowClues

----------------------------------------------------------------------------
(* Properties of the passes of the propagation engine *)

\* the board a pass started from: the argument, or the board of the pass before
BoardBefore(boards, first, k) == IF k = 1 THEN first ELSE boards[k - 1]

\* C21: solve_with_constraint_propagation runs as many passes as the loop
\* makes; every pass but the last leaves fewer Unknown cells than it found;
\* the passes are at most the Unknown cells of the argument plus one; and
\* the loop ends on a pass that changed no cell, short of the cap.
C21_CapNotReached ==
    propFirst # <<>> =>
        LET boards == PassBoards(propBoard, rowClues, colClues, TRUE, 0)
        IN  /\ propFirst[1].iteration = Len(boards)
            /\ \A k \in 1..(Len(boards) - 1) :
                  Unknowns(boards[k]) < Unknowns(BoardBefore(boards, propBoard, k))
            /\ propFirst[1].iteration <= Unknowns(propBoard) + 1
            /\ ~propFirst[1].changed
            /\ propFirst[1].iteration < max_iterations

\* a board of two Unknown cells took three passes: the bound is met
C21_Witness ==
    /\ propFirst # <<>>
    /\ propFirst[1].iteration = 3
    /\ ~propFirst[1].changed
    /\ Unknowns(propBoard) = 2

----------------------------------------------------------------------------
(* Properties of the window's propagation loop and of its history *)

IdsOf(board) == {board[r] : r \in 1..Len(board)}

\* every cell that is Filled or Blank in board a has the same value in board b
Extends(a, b) ==
    /\ Len(a) = Len(b)
    /\ \A r \in 1..Len(a) :
          /\ Len(a[r]) = Len(b[r])
          /\ \A c \in 1..Len(a[r]) : a[r][c] = -1 \/ a[r][c] = b[r][c]

LoopStopped == mode = "ui" /\ uiPc = "ready" /\ uiBoard # None /\ board_history # <<>>

\* C22: when the loop of solve_puzzle has stopped after an iteration that
\* changed no cell, applying the dispatcher to every column and then to
\* every row of the window's board changes no cell.
C22_StopIsFixpoint ==
    (LoopStopped /\ ~uiChanged) =>
        PropagationPass(Deref(heap, uiBoard[1]), rowClues, colClues).board
            = Deref(heap, uiBoard[1])

\* C23: before every snapshot of board_history, and after the snapshot
\* before it, the dispatcher was applied to every column in order and then
\* to every row in order.
C23_SnapshotAfterFullPass ==
    mode = "ui" =>
        \A k \in 1..Len(board_history) :
            passLines[k] = LineOrder(Len(rowClues), Len(colClues))

\* C24: once solve_puzzle has run on clues that are not empty,
\* board_history has one snapshot for each iteration run, at least 1 and at
\* most 10; no row list of a snapshot is a row list of the board or of
\* another snapshot; the last snapshot has the cell values of the board;
\* and every snapshot has the same value as the one before it in every
\* cell that one had Filled or Blank.
C24_HistoryOfIterations ==
    (mode = "ui" /\ uiPc \in {"loop", "ready"} /\ rowClues # <<>> /\ colClues # <<>>) =>
        /\ uiBoard # None
        /\ Len(board_history) = uiIteration
        /\ Len(board_history) <= ui_max_iterations
        /\ uiPc = "ready" => Len(board_history) >= 1
        /\ \A k \in 1..Len(board_history) :
              /\ Cardinality(IdsOf(board_history[k])) = Len(rowClues)
              /\ IdsOf(board_history[k]) \cap IdsOf(uiBoard[1]) = {}
              /\ \A j \in 1..Len(board_history) :
                    j # k => IdsOf(board_history[j]) \cap IdsOf(board_history[k]) = {}
        /\ board_history # <<>> =>
              Deref(heap, board_history[Len(board_history)]) = Deref(heap, uiBoard[1])
        /\ \A k \in 2..Len(board_history) :
              Extends(Deref(heap, board_history[k - 1]), Deref(heap, board_history[k]))

\* the loop ran three iterations, the first two of which determined cells
C24_Witness ==
    /\ LoopStopped
    /\ Len(board_history) = 3
    /\ Unknowns(Deref(heap, board_history[1])) < Unknowns(EmptyBoard(NumRowClues, NumColClues))
    /\ Unknowns(Deref(heap, board_history[2])) < Unknowns(Deref(heap, board_history[1]))
    /\ Deref(heap, board_history[3]) = Deref(heap, uiBoard[1])

----------------------------------------------------------------------------
(* Properties of the solve button *)

Clicked == mode = "ui" /\ clicks' = clicks + 1

ExtractionFailed(e) == e # <<>> /\ (e[1].col = None \/ e[1].row = None)

ExtractionSucceeded(e) == e # <<>> /\ e[1].col # None /\ e[1].row # None

----------------------------------------------------------------------------
(* Properties of the writes to cells *)

\* line b has the length of line a, cell values only, and the value of a
\* in every cell that a has Filled or Blank
ExtendsLine(a, b) ==
    /\ Len(a) = Len(b)
    /\ \A i \in 1..Len(a) : b[i] \in Cells /\ (a[i] = -1 \/ a[i] = b[i])

\* the board a call passes to the nested call it is waiting for
Guessed(f) == GuessCopy(f.board, f.unknown, IF f.pc = "filled" THEN 1 ELSE 0)

\* C25: each of determine_certain_by_range, determine_certain_by_patterns,
\* determine_certain_cells and solve_with_constraint_propagation returns
\* its argument with every Filled or Blank cell as it was; in the search
\* the board a call works on repeats every Filled or Blank cell of the
\* board it was called on, and a returned board repeats those of the board
\* of every call it is returned through.
C25_WriteOnce ==
    /\ rangeOut # <<>> => ExtendsLine(marked, rangeOut[1])
    /\ patOut # <<>> => ExtendsLine(marked, patOut[1])
    /\ cellsOut # <<>> => ExtendsLine(marked, cellsOut[1])
    /\ propFirst # <<>> => Extends(propBoard, propFirst[1].board)
    /\ propSecond # <<>> => Extends(propFirst[1].board, propSecond[1].board)
    /\ mode = "solve" =>
          /\ \A k \in 2..Len(stack) : Extends(Guessed(stack[k - 1]), stack[k].board)
          /\ ret # None =>
                \A k \in 1..Len(stack) :
                    /\ Extends(stack[k].board, ret[1])
                    /\ Extends(Guessed(stack[k]), ret[1])

\* propagation was given a board with Filled or Blank cells and clues that
\* may not fit, and determined further cells
C25_Witness ==
    /\ propFirst # <<>>
    /\ Marks(propBoard) >= 2
    /\ Marks(propFirst[1].board) > Marks(propBoard)
    /\ ~is_valid_board(propFirst[1].board, rowClues, colClues)

----------------------------------------------------------------------------
(* Properties of propagation and of the search with respect to the         *)
(* solutions of the puzzle                                                 *)

\* C26: every fully determined board that satisfies all the clues and has
\* the value of the argument in every Filled or Blank cell of the argument
\* also has the value of the board solve_with_constraint_propagation
\* returns in every Filled or Blank cell of that board.
C26_PropagationSound ==
    propFirst # <<>> =>
        \A s \in Solutions(rowClues, colClues) :
            Extends(propBoard, s) => Extends(propFirst[1].board, s)

\* a puzzle with several solutions, a board with a Filled or Blank cell
\* that two of them agree with, and a propagation that determined cells
\* and left others Unknown
C26_Witness ==
    /\ propFirst # <<>>
    /\ Marks(propBoard) >= 1
    /\ Cardinality({s \in Solutions(rowClues, colClues) : Extends(propBoard, s)}) >= 2
    /\ Marks(propFirst[1].board) > Marks(propBoard)
    /\ Unknowns(propFirst[1].board) >= 1

\* boards a and b differ, and at the first cell in row-major order where
\* they differ a is Filled and b is Blank
FilledFirst(a, b) ==
    \E r \in 1..Len(a) : \E c \in 1..Len(a[r]) :
        /\ a[r][c] = 1 /\ b[r][c] = 0
        /\ \A q \in 1..Len(a) : \A p \in 1..Len(a[q]) :
              RowMajorBefore(<<q, p>>, <<r, c>>) => a[q][p] = b[q][p]

\* C27: for a puzzle with two or more solutions, the search from the
\* all-Unknown board returns a solution, and at the first cell in row-major
\* order where it differs from any other solution it is Filled.
C27_GreatestSolution ==
    (Done /\ Cardinality(Solutions(rowClues, colClues)) >= 2) =>
        /\ ret # None
        /\ ret[1] \in Solutions(rowClues, colClues)
        /\ \A s \in Solutions(rowClues, colClues) : s = ret[1] \/ FilledFirst(ret[1], s)

\* a puzzle with three or more solutions that differ in the first row was
\* searched with guesses, and a board was returned
C27_Witness ==
    /\ Done /\ ret # None /\ calls >= 3
    /\ Cardinality(Solutions(rowClues, colClues)) >= 3
    /\ \E s \in Solutions(rowClues, colClues) : s[1] # ret[1][1]

----------------------------------------------------------------------------
(* Properties of the empty clue and of puzzles without rows or columns *)

\* the clues with every empty clue [] written as [0]
ZeroForEmpty(clues) ==
    [k \in 1..Len(clues) |-> IF clues[k] = <<>> THEN <<0>> ELSE clues[k]]

\* C28: the search on a puzzle with an empty clue [] ends as
\* solve_with_backtrack does on the same puzzle with [0] in its place: with
\* the same board, or with None in both cases.
C28_EmptyClueAsZero ==
    Done =>
        ret = solve_with_backtrack(EmptyBoard(NumRowClues, NumColClues),
                                   ZeroForEmpty(rowClues), ZeroForEmpty(colClues))

\* C29: without rows the search returns a board exactly when every column
\* clue is [0], and without columns exactly when every row clue is [0].
C29_DegenerateSymmetric ==
    Done =>
        /\ NumRowClues = 0 =>
              (ret # None <=> \A c \in 1..NumColClues : colClues[c] = <<0>>)
        /\ NumColClues = 0 =>
              (ret # None <=> \A r \in 1..NumRowClues : rowClues[r] = <<0>>)

====
